---- MODULE Spec2Model ----
(***************************************************************************)
(* Model of build.py: the command line tool that resolves its              *)
(* configuration from flags and environment, logs in to a docker registry  *)
(* (vanilla or Amazon ECR) and builds and pushes one image per tag.        *)
(*                                                                         *)
(* Python strings are sequences of one-character strings, so that          *)
(* startswith, slicing, split, replace, format and base64 decoding are     *)
(* computed character by character.  The interpreter is Python 2, the one  *)
(* the script's str/bytes handling (line 201-202) is written for.          *)
(***************************************************************************)
EXTENDS Naturals, Sequences, FiniteSets, TLC

VARIABLES args, environ, dotenv_file, pc, docker_client, repo, tags,
          build_args, region_name, response, authIdx, registry, user, pswd,
          tagIdx, stream, calls, logged, exit_code

vars == <<args, environ, dotenv_file, pc, docker_client, repo, tags,
          build_args, region_name, response, authIdx, registry, user, pswd,
          tagIdx, stream, calls, logged, exit_code>>

(***************************************************************************)
(* Bounds of the model.                                                    *)
(***************************************************************************)
MaxEntries == 2   \* entries of authorizationData in one response
MaxLines == 1     \* progress lines streamed by one push

(***************************************************************************)
(* Python values.                                                          *)
(***************************************************************************)
None == <<"None">>            \* None where a str is expected
NoList == << <<"None">> >>    \* None where a list of str is expected
False_ == <<"False">>         \* args.env after --no-env
Unbound == <<"unbound">>      \* a local name not assigned yet

Truthy(s) == s # None /\ s # <<>> /\ s # False_
ListTruthy(l) == l # NoList /\ l # <<>>
Or(a, b) == IF Truthy(a) THEN a ELSE b
Range(s) == {s[i] : i \in 1..Len(s)}

Drop(s, n) == IF Len(s) <= n THEN <<>> ELSE SubSeq(s, n + 1, Len(s))
StartsWith(s, p) == Len(s) >= Len(p) /\ SubSeq(s, 1, Len(p)) = p

\* str.replace(old, ''): every non-overlapping occurrence, left to right
RECURSIVE Remove(_, _)
Remove(s, old) ==
    IF s = <<>> THEN <<>>
    ELSE IF StartsWith(s, old) THEN Remove(Drop(s, Len(old)), old)
    ELSE <<Head(s)>> \o Remove(Tail(s), old)

\* str.split(sep) for a one-character separator: the list of fields
RECURSIVE SplitFrom(_, _, _)
SplitFrom(s, sep, cur) ==
    IF s = <<>> THEN <<cur>>
    ELSE IF Head(s) = sep THEN <<cur>> \o SplitFrom(Tail(s), sep, <<>>)
    ELSE SplitFrom(Tail(s), sep, Append(cur, Head(s)))
Split(s, sep) == SplitFrom(s, sep, <<>>)

\* '{}/{}:{}'.format(registry, repo, tag) and '{}/{}'.format(registry, repo)
ImageRef(g, r, t) == g \o <<"/">> \o r \o <<":">> \o t
RepoRef(g, r) == g \o <<"/">> \o r

(***************************************************************************)
(* base64.b64decode (Python 2: str in, str out, TypeError on bad padding). *)
(***************************************************************************)
B64Chars == <<"A","B","C","D","E","F","G","H","I","J","K","L","M","N","O","P",
              "Q","R","S","T","U","V","W","X","Y","Z","a","b","c","d","e","f",
              "g","h","i","j","k","l","m","n","o","p","q","r","s","t","u","v",
              "w","x","y","z","0","1","2","3","4","5","6","7","8","9","+","/">>
\* printable ASCII, codes 32..126 (double quote, backslash and backquote,
\* which no credential of the model holds, are written "?")
AsciiChars == <<" ","!","?","#","$","%","&","'","(",")","*","+",",","-",".","/",
                "0","1","2","3","4","5","6","7","8","9",":",";","<","=",">","?",
                "@","A","B","C","D","E","F","G","H","I","J","K","L","M","N","O",
                "P","Q","R","S","T","U","V","W","X","Y","Z","[","?","]","^","_",
                "?","a","b","c","d","e","f","g","h","i","j","k","l","m","n","o",
                "p","q","r","s","t","u","v","w","x","y","z","{","|","}","~">>
Chr(n) == IF n >= 32 /\ n <= 126 THEN AsciiChars[n - 31] ELSE "?"
B64Val(c) == IF c = "=" THEN 0 ELSE (CHOOSE i \in 1..64 : B64Chars[i] = c) - 1
B64Error == <<"TypeError">>

B64Quad(q) ==
    LET n == ((B64Val(q[1]) * 64 + B64Val(q[2])) * 64 + B64Val(q[3])) * 64
             + B64Val(q[4])
        b1 == Chr(n \div 65536)
        b2 == Chr((n \div 256) % 256)
        b3 == Chr(n % 256)
    IN  IF q[3] = "=" THEN <<b1>>
        ELSE IF q[4] = "=" THEN <<b1, b2>>
        ELSE <<b1, b2, b3>>

RECURSIVE B64Groups(_)
B64Groups(s) ==
    IF s = <<>> THEN <<>>
    ELSE B64Quad(SubSeq(s, 1, 4)) \o B64Groups(Drop(s, 4))

b64decode(s) == IF Len(s) % 4 # 0 THEN B64Error ELSE B64Groups(s)

(***************************************************************************)
(* Names and literals of the script.                                       *)
(***************************************************************************)
PrefixLen == 10
BUILD_ARG_ == <<"B","U","I","L","D","_","A","R","G","_">>
BUILD_REPOSITORY == <<"B","U","I","L","D","_","R","E","P","O","S","I","T","O","R","Y">>
BUILD_TAG == <<"B","U","I","L","D","_","T","A","G">>
BUILD_REGISTRY == <<"B","U","I","L","D","_","R","E","G","I","S","T","R","Y">>
BUILD_USER == <<"B","U","I","L","D","_","U","S","E","R">>
BUILD_PASSWORD == <<"B","U","I","L","D","_","P","A","S","S","W","O","R","D">>
BUILD_AMAZON_REGION == <<"B","U","I","L","D","_","A","M","A","Z","O","N","_","R","E","G","I","O","N">>
latest == <<"l","a","t","e","s","t">>
https == <<"h","t","t","p","s",":","/","/">>
DotEnv == <<".","e","n","v">>

\* the namespace parse_args returns when no flag is given
DefaultArgs ==
    [env |-> DotEnv, path |-> <<".">>, tags |-> NoList,
     will_add_latest |-> FALSE, repository |-> None, registry |-> None,
     will_push |-> FALSE, will_login |-> TRUE, login_user |-> None,
     login_password |-> None, is_amazon_mode |-> FALSE,
     amazon_region |-> None, amazon_registry_ids |-> NoList]

\* os.environ.get(k, default)
Get(e, k, default) == IF k \in DOMAIN e THEN e[k] ELSE default

(***************************************************************************)
(* Configuration resolution, lines 175-187 and 193, 206-209.               *)
(***************************************************************************)
IOError == <<"IOError">>
\* dotenv.find_dotenv(name): the path found by the upward search, '' if none
\* (raise_error_if_not_found is left at its default, False)
find_dotenv_raising(f) == IF f.found THEN <<"/">> \o f.name ELSE IOError
find_dotenv(f) == IF f.found THEN <<"/">> \o f.name ELSE <<>>

\* dotenv.load_dotenv(path): variables of the file that are not set yet
load_dotenv(e, f, path) == IF path = <<>> THEN e ELSE e @@ f.vars

ResolveRepo(a, e) == Or(a.repository, Get(e, BUILD_REPOSITORY, <<>>))

ResolveTagsNoDefault(a, e) ==
    (IF ListTruthy(a.tags) THEN Range(a.tags)
     ELSE IF BUILD_TAG \in DOMAIN e THEN {e[BUILD_TAG]} ELSE {})
    \cup (IF a.will_add_latest THEN {latest} ELSE {})
ResolveTags(a, e) ==
    (IF ListTruthy(a.tags) THEN Range(a.tags)
                           ELSE {Get(e, BUILD_TAG, latest)})
    \cup (IF a.will_add_latest THEN {latest} ELSE {})

BuildArgsContaining(e) ==
    [k \in {Drop(n, PrefixLen) : n \in {m \in DOMAIN e :
                \E i \in 1..Len(m) : StartsWith(Drop(m, i - 1), BUILD_ARG_)}}
        |-> <<>>]
BuildArgs(e) ==
    [k \in {Drop(n, PrefixLen) : n \in {m \in DOMAIN e : StartsWith(m, BUILD_ARG_)}}
        |-> e[BUILD_ARG_ \o k]]

ResolveRegion(a, e) == a.amazon_region
ResolveRegistry(a, e) == Or(a.registry, Get(e, BUILD_REGISTRY, <<>>))
ResolveUser(a, e) == Or(a.login_user, Get(e, BUILD_USER, None))
ResolvePswd(a, e) == Or(a.login_password, Get(e, BUILD_PASSWORD, None))

\* the orders in which a for loop may visit a Python set
Orders(S) ==
    {s \in [1..Cardinality(S) -> S] : \A i, j \in DOMAIN s : s[i] = s[j] => i = j}

(***************************************************************************)
(* Amazon ECR authorization data, lines 195-202.                           *)
(***************************************************************************)
Endpoint(i) == https \o <<"h", Chr(48 + i)>>
Tokens == { <<"d","T","p","w">>,                    \* u:p
            <<"Y","T","p","i">>,                    \* a:b
            <<"d","X","A","=">>,                    \* up
            <<"d","T","p","w","O","n","E","=">> ,   \* u:p:q
            <<"d","T","p">> }                       \* incorrect padding
Responses ==
    UNION {{[i \in 1..n |-> [proxyEndpoint |-> Endpoint(i),
                             authorizationToken |-> t[i]]] : t \in [1..n -> Tokens]}
           : n \in 0..MaxEntries}

RegistryOfFlag(auth) == Or(args.registry, Remove(auth.proxyEndpoint, https))
RegistryOf(auth) == Remove(auth.proxyEndpoint, https)
CredsOf(auth) == b64decode(auth.authorizationToken)
\* user, pswd = creds.split(':') raises unless there are exactly two fields
UnpackRaises(creds) == creds = B64Error \/ Len(Split(creds, ":")) # 2

\* one call to a collaborator: what was called, with what, whether it returned
\* (ok) or raised, and how many lines of an open push stream were still unread
\* when it was made
Call(op, arg, ok, unread) == [op |-> op, arg |-> arg, ok |-> ok, unread |-> unread]

(***************************************************************************)
(* Inputs of one run: the parsed command line, the process environment and *)
(* the variable file the upward search would find.  The input space is     *)
(* sampled along five axes, the inputs off the axis at fixed values.        *)
(***************************************************************************)
NoFile == [found |-> FALSE, name |-> DotEnv, vars |-> <<>>]
EnvFile == [found |-> TRUE, name |-> DotEnv,
            vars |-> (BUILD_REPOSITORY :> <<"d">>) @@ (BUILD_REGISTRY :> <<"x">>)]

FlagValues == {None, <<>>, <<"f">>}
EnvValues == {None, <<>>, <<"e">>}     \* None: the variable is not set
Environ(v) == [k \in {n \in DOMAIN v : v[n] # None} |-> v[k]]

RunEnviron == (BUILD_REGISTRY :> <<"e">>) @@ (BUILD_ARG_ \o <<"X">> :> <<"1">>)
SomeIds == << <<"1">>, <<"2">> >>

\* the flags that steer the run
RunInputs ==
    {[args |-> [DefaultArgs EXCEPT !.will_push = p, !.will_login = l,
                    !.is_amazon_mode = m, !.registry = g, !.tags = t,
                    !.amazon_registry_ids = IF m THEN SomeIds ELSE NoList,
                    !.repository = <<"r">>],
      environ |-> RunEnviron,
      dotenv_file |-> NoFile] :
        p \in BOOLEAN, l \in BOOLEAN, m \in BOOLEAN, g \in {None, <<"g">>},
        t \in {NoList, << <<"a">>, <<"b">> >>}}

\* the variable file and the registry ids
FileInputs ==
    {[args |-> [DefaultArgs EXCEPT !.env = ef[1], !.is_amazon_mode = m,
                    !.amazon_registry_ids = ids, !.will_push = TRUE],
      environ |-> RunEnviron,
      dotenv_file |-> ef[2]] :
        ef \in {<<False_, NoFile>>, <<DotEnv, NoFile>>, <<DotEnv, EnvFile>>},
        m \in BOOLEAN, ids \in {NoList, <<>>, SomeIds}}

\* the flag and the variable of every field that has both
FieldChoices(m, V) ==
    {x \in [1..5 -> V] : IF m THEN x[2] = None /\ x[3] = None /\ x[4] = None
                              ELSE x[5] = None}
FieldInputs ==
    UNION {{[args |-> [DefaultArgs EXCEPT !.env = False_, !.is_amazon_mode = m,
                    !.repository = f[1], !.registry = f[2], !.login_user = f[3],
                    !.login_password = f[4], !.amazon_region = f[5]],
             environ |-> Environ((BUILD_REPOSITORY :> v[1]) @@ (BUILD_REGISTRY :> v[2])
                          @@ (BUILD_USER :> v[3]) @@ (BUILD_PASSWORD :> v[4])
                          @@ (BUILD_AMAZON_REGION :> v[5])),
             dotenv_file |-> NoFile] :
               f \in FieldChoices(m, FlagValues), v \in FieldChoices(m, EnvValues)}
           : m \in BOOLEAN}

\* -t, BUILD_TAG and --latest
TagInputs ==
    {[args |-> [DefaultArgs EXCEPT !.env = False_, !.tags = t,
                    !.will_add_latest = wl, !.will_push = TRUE],
      environ |-> Environ(BUILD_TAG :> v),
      dotenv_file |-> NoFile] :
        t \in {NoList, <<>>, << <<"a">> >>, << <<"a">>, <<"b">> >>,
               << latest >>, << <<>> >>},
        v \in EnvValues, wl \in BOOLEAN}

\* the environment variables around the BUILD_ARG_ prefix
ArgNames == {BUILD_ARG_ \o <<"X">>, BUILD_ARG_, <<"B","U","I","L","D","_","A","R","G","S">>,
             <<"X">> \o BUILD_ARG_ \o <<"Y">>, BUILD_ARG_ \o BUILD_ARG_ \o <<"Z">>,
             BUILD_TAG}
BuildArgInputs ==
    {[args |-> [DefaultArgs EXCEPT !.env = False_, !.will_login = FALSE],
      environ |-> [n \in S |-> <<"v">> \o n],
      dotenv_file |-> NoFile] : S \in SUBSET ArgNames}

Inputs == RunInputs \cup FileInputs \cup FieldInputs \cup TagInputs \cup BuildArgInputs

Init ==
    /\ \E i \in Inputs :
          /\ args = i.args
          /\ environ = i.environ
          /\ dotenv_file = i.dotenv_file
    /\ pc = "load_env"
    /\ docker_client = FALSE
    /\ repo = Unbound
    /\ tags = <<>>
    /\ build_args = <<>>
    /\ region_name = Unbound
    /\ response = <<>>
    /\ authIdx = 0
    /\ registry = Unbound
    /\ user = Unbound
    /\ pswd = Unbound
    /\ tagIdx = 0
    /\ stream = 0
    /\ calls = <<>>
    /\ logged = <<>>
    /\ exit_code = "running"

(***************************************************************************)
(* The run.  pc is the position of the single thread of control; an        *)
(* exception is caught nowhere in the script, so a call that raises ends   *)
(* the process with a traceback and a non-zero status.                     *)
(***************************************************************************)
\* where control goes when a statement raises
RaisedSwallowed(at) == IF at \in {"build", "push"} THEN "finish" ELSE "failed"
Raised(at) == "failed"
ExitOf(p) == IF p = "failed" THEN "nonzero" ELSE IF p = "done" THEN "zero" ELSE "running"

Log(msg) == logged' = Append(logged, msg)
Goto(p) == pc' = p /\ exit_code' = ExitOf(p)

WillPushAlways == TRUE
WillPush == args.will_push
WillLoginWhenPushing == args.will_login /\ args.will_push
WillLogin == args.will_login
IsAmazonMode == args.is_amazon_mode
RegistryIdsUnscoped == NoList
\* registryIds of the authorization call, NoList when the call is unscoped
RegistryIds == IF ListTruthy(args.amazon_registry_ids)
                  THEN args.amazon_registry_ids ELSE NoList

\* lines 175-178
LoadEnv ==
    /\ pc = "load_env"
    /\ IF Truthy(args.env)
          THEN LET env == find_dotenv(dotenv_file)
               IN  IF env = IOError
                      THEN /\ Goto(Raised("load_env"))
                           /\ UNCHANGED <<environ, logged>>
                      ELSE /\ Log("loading environment from {}")
                           /\ environ' = load_dotenv(environ, dotenv_file, env)
                           /\ Goto("from_env")
          ELSE /\ Goto("from_env")
               /\ UNCHANGED <<environ, logged>>
    /\ UNCHANGED <<args, dotenv_file, docker_client, repo, tags, build_args,
                   region_name, response, authIdx, registry, user, pswd,
                   tagIdx, stream, calls>>

\* line 180: docker.from_env(version='auto') asks the daemon for its version
FromEnv ==
    /\ pc = "from_env"
    /\ \E ok \in BOOLEAN :
          /\ calls' = Append(calls, Call("from_env", <<>>, ok, stream))
          /\ docker_client' = ok
          /\ Goto(IF ok THEN "resolve" ELSE Raised("from_env"))
    /\ UNCHANGED <<args, environ, dotenv_file, repo, tags, build_args,
                   region_name, response, authIdx, registry, user, pswd,
                   tagIdx, stream, logged>>

\* lines 182-187
Resolve ==
    /\ pc = "resolve"
    /\ repo' = ResolveRepo(args, environ)
    /\ tags' \in Orders(ResolveTags(args, environ))
    /\ build_args' = BuildArgs(environ)
    /\ Goto(IF IsAmazonMode THEN "boto3" ELSE "vanilla")
    /\ UNCHANGED <<args, environ, dotenv_file, docker_client, region_name,
                   response, authIdx, registry, user, pswd, tagIdx, stream,
                   calls, logged>>

\* lines 190-193
Boto3Client ==
    /\ pc = "boto3"
    /\ Log("running in AMAZON mode")
    /\ region_name' = ResolveRegion(args, environ)
    /\ calls' = Append(calls, Call("boto3.client", <<region_name'>>, TRUE, stream))
    /\ Goto("get_token")
    /\ UNCHANGED <<args, environ, dotenv_file, docker_client, repo, tags,
                   build_args, response, authIdx, registry, user, pswd,
                   tagIdx, stream>>

\* lines 194-198
GetAuthorizationToken ==
    /\ pc = "get_token"
    /\ \/ \E r \in Responses :
             /\ response' = r
             /\ authIdx' = 1
             /\ calls' = Append(calls, Call("get_authorization_token",
                                            RegistryIds, TRUE, stream))
             /\ Goto("auth_loop")
       \/ /\ calls' = Append(calls, Call("get_authorization_token",
                                         RegistryIds, FALSE, stream))
          /\ Goto(Raised("get_token"))
          /\ UNCHANGED <<response, authIdx>>
    /\ UNCHANGED <<args, environ, dotenv_file, docker_client, repo, tags,
                   build_args, region_name, registry, user, pswd, tagIdx,
                   stream, logged>>

\* lines 199-203: the next entry of authorizationData, up to the login
AmazonLogin ==
    /\ pc = "auth_loop"
    /\ authIdx <= Len(response)
    /\ LET auth == response[authIdx]
           creds == CredsOf(auth)
       IN  /\ registry' = RegistryOf(auth)
           /\ IF UnpackRaises(creds)
                 THEN /\ Goto(Raised("unpack"))
                      /\ UNCHANGED <<user, pswd, calls, tagIdx>>
                 ELSE /\ user' = Split(creds, ":")[1]
                      /\ pswd' = Split(creds, ":")[2]
                      /\ \E ok \in BOOLEAN :
                            /\ calls' = Append(calls,
                                   Call("login", <<user', pswd', registry'>>, ok, stream))
                            /\ Goto(IF ok THEN "build" ELSE Raised("login"))
                            /\ tagIdx' = IF ok THEN 1 ELSE tagIdx
    /\ UNCHANGED <<args, environ, dotenv_file, docker_client, repo, tags,
                   build_args, region_name, response, authIdx, stream, logged>>

\* lines 206-213
VanillaLogin ==
    /\ pc = "vanilla"
    /\ registry' = ResolveRegistry(args, environ)
    /\ IF WillLogin
          THEN /\ user' = ResolveUser(args, environ)
               /\ pswd' = ResolvePswd(args, environ)
               /\ \E ok \in BOOLEAN :
                     /\ calls' = Append(calls,
                            Call("login", <<user', pswd', registry'>>, ok, stream))
                     /\ logged' = IF ok
                           THEN logged \o <<"attempting to login to {} as {}",
                                            "successfully logged in">>
                           ELSE Append(logged, "attempting to login to {} as {}")
                     /\ Goto(IF ok THEN "build" ELSE Raised("login"))
                     /\ tagIdx' = IF ok THEN 1 ELSE tagIdx
          ELSE /\ Goto("build")
               /\ tagIdx' = 1
               /\ UNCHANGED <<user, pswd, calls, logged>>
    /\ UNCHANGED <<args, environ, dotenv_file, docker_client, repo, tags,
                   build_args, region_name, response, authIdx, stream>>

\* lines 44-54: the build of the next tag
Build ==
    /\ pc = "build"
    /\ tagIdx <= Len(tags)
    /\ LET t == ImageRef(registry, repo, tags[tagIdx])
       IN  \E ok \in BOOLEAN :
              /\ calls' = Append(calls,
                     Call("build", <<args.path, t, build_args>>, ok, stream))
              /\ logged' = IF ok
                    THEN logged \o <<"building docker image {}",
                                     "completed building image">>
                    ELSE Append(logged, "building docker image {}")
              /\ Goto(IF ~ok THEN Raised("build")
                      ELSE IF WillPush THEN "push" ELSE "build")
              /\ tagIdx' = IF ok /\ ~WillPush THEN tagIdx + 1 ELSE tagIdx
    /\ UNCHANGED <<args, environ, dotenv_file, docker_client, repo, tags,
                   build_args, region_name, response, authIdx, registry, user,
                   pswd, stream>>

\* lines 56-61: the push call, which returns the stream of progress lines
Push ==
    /\ pc = "push"
    /\ Log("attempting to push image to {}")
    /\ \E ok \in BOOLEAN :
          /\ calls' = Append(calls,
                 Call("push", <<RepoRef(registry, repo), tags[tagIdx]>>, ok, stream))
          /\ IF ok THEN stream' \in 0..MaxLines ELSE stream' = stream
          /\ Goto(IF ok THEN "stream" ELSE Raised("push"))
    /\ UNCHANGED <<args, environ, dotenv_file, docker_client, repo, tags,
                   build_args, region_name, response, authIdx, registry, user,
                   pswd, tagIdx>>

\* lines 57, 62: one progress line is taken from the stream and sent to the
\* log at debug level; only a read that raises is kept in the record of calls
PushLine ==
    /\ pc = "stream"
    /\ stream > 0
    /\ \/ /\ stream' = stream - 1
          /\ Goto("stream")
          /\ UNCHANGED calls
       \/ /\ calls' = Append(calls, Call("line", <<>>, FALSE, stream))
          /\ Goto(Raised("stream"))
          /\ UNCHANGED stream
    /\ UNCHANGED <<args, environ, dotenv_file, docker_client, repo, tags,
                   build_args, region_name, response, authIdx, registry, user,
                   pswd, tagIdx, logged>>

\* lines 57, 63: the stream is exhausted
PushEnd ==
    /\ pc = "stream"
    /\ stream = 0
    /\ Log("successfully pushed image")
    /\ tagIdx' = tagIdx + 1
    /\ Goto("build")
    /\ UNCHANGED <<args, environ, dotenv_file, docker_client, repo, tags,
                   build_args, region_name, response, authIdx, registry, user,
                   pswd, stream, calls>>

\* line 44 with no tag left: _build returns to line 204 or 214
BuildReturn ==
    /\ pc = "build"
    /\ tagIdx > Len(tags)
    /\ IF IsAmazonMode
          THEN authIdx' = authIdx + 1 /\ Goto("auth_loop")
          ELSE authIdx' = authIdx /\ Goto("finish")
    /\ UNCHANGED <<args, environ, dotenv_file, docker_client, repo, tags,
                   build_args, region_name, response, registry, user, pswd,
                   tagIdx, stream, calls, logged>>

\* line 216, reached from line 214 or when authorizationData is exhausted
Finished ==
    /\ \/ pc = "finish"
       \/ pc = "auth_loop" /\ authIdx > Len(response)
    /\ Log("finished")
    /\ Goto("done")
    /\ UNCHANGED <<args, environ, dotenv_file, docker_client, repo, tags,
                   build_args, region_name, response, authIdx, registry, user,
                   pswd, tagIdx, stream, calls>>

Next ==
    \/ LoadEnv
    \/ FromEnv
    \/ Resolve
    \/ Boto3Client
    \/ GetAuthorizationToken
    \/ AmazonLogin
    \/ VanillaLogin
    \/ Build
    \/ Push
    \/ PushLine
    \/ PushEnd
    \/ BuildReturn
    \/ Finished

Spec == Init /\ [][Next]_vars

(***************************************************************************)
(* Reading the record of calls.                                            *)
(***************************************************************************)
Pos(op) == {k \in DOMAIN calls : calls[k].op = op}
EngineOps == {"build", "push", "line"}
\* the call that precedes the current (or last) invocation of _build
CycleStart ==
    LET S == {k \in DOMAIN calls : calls[k].op \notin EngineOps}
    IN  IF S = {} THEN 0 ELSE CHOOSE k \in S : \A j \in S : j <= k
CycleCalls == SubSeq(calls, CycleStart + 1, Len(calls))
CycleRegistry ==
    IF CycleStart > 0 /\ calls[CycleStart].op = "login"
       THEN calls[CycleStart].arg[3] ELSE registry
CycleBuilds == SelectSeq(CycleCalls, LAMBDA c : c.op = "build")
\* _build has returned from its last invocation
BuildReturned ==
    \/ ~args.is_amazon_mode /\ pc \in {"finish", "done"}
    \/ args.is_amazon_mode /\ pc \in {"auth_loop", "done"} /\ authIdx > 1

(***************************************************************************)
(* C1: within one call of _build the tags are handled one at a time: the   *)
(* j-th build is the build of registry/repository:tag for the j-th tag,    *)
(* every tag is built exactly once when _build returns, a push is made     *)
(* only with the push flag set and directly after the successful build of  *)
(* the same reference, a build starts only at the start of the cycle,      *)
(* after the previous build (no push) or after the previous push's stream  *)
(* is read to its end; without the push flag no push is ever made.         *)
(***************************************************************************)
C1_TagsOneAtATime ==
    LET s == CycleCalls
        b == CycleBuilds
    IN  /\ Len(b) <= Len(tags)
        /\ \A j \in DOMAIN b :
              b[j].arg[2] = ImageRef(CycleRegistry, repo, tags[j])
        /\ BuildReturned => Len(b) = Len(tags)
        /\ \A k \in DOMAIN s :
              /\ s[k].op = "push" =>
                    /\ args.will_push
                    /\ k > 1 /\ s[k - 1].op = "build" /\ s[k - 1].ok
                    /\ s[k - 1].arg[2] = s[k].arg[1] \o <<":">> \o s[k].arg[2]
              /\ s[k].op = "build" =>
                    \/ k = 1
                    \/ ~args.will_push /\ s[k - 1].op = "build" /\ s[k - 1].ok
                    \/ /\ args.will_push
                       /\ s[k - 1].op = "push" /\ s[k - 1].ok
                       /\ s[k].unread = 0
        /\ ~args.will_push => Pos("push") = {}

C1_Witness ==
    /\ pc = "done" /\ args.will_push /\ Len(tags) = 2
    /\ Cardinality(Pos("build")) = 2 /\ Cardinality(Pos("push")) = 2
    /\ \A k \in Pos("build") : calls[k].unread = 0

(***************************************************************************)
(* C6: a build or push call (or the reading of a push stream) that fails   *)
(* is the last call of the run: no later login, build or push is made, the *)
(* 'finished' milestone is never logged and the process ends non-zero.     *)
(***************************************************************************)
C6_FailureAborts ==
    \A k \in DOMAIN calls :
        (calls[k].op \in EngineOps /\ ~calls[k].ok) =>
            /\ k = Len(calls)
            /\ pc = "failed"
            /\ exit_code = "nonzero"
            /\ "finished" \notin Range(logged)

C6_Witness ==
    /\ pc = "failed" /\ exit_code = "nonzero"
    /\ calls # <<>> /\ calls[Len(calls)].op = "push" /\ ~calls[Len(calls)].ok
    /\ tagIdx < Len(tags)
    /\ args.is_amazon_mode /\ authIdx < Len(response)
    /\ ~UnpackRaises(CredsOf(response[authIdx + 1]))

(***************************************************************************)
(* C2: in Amazon mode, when any entry of the authorization response holds  *)
(* a token that does not decode to exactly user:password, no build call is *)
(* made in the run.                                                        *)
(***************************************************************************)
Malformed(auth) ==
    \/ b64decode(auth.authorizationToken) = B64Error
    \/ Cardinality({i \in DOMAIN b64decode(auth.authorizationToken) :
                       b64decode(auth.authorizationToken)[i] = ":"}) # 1
C2_MalformedTokenNoBuild ==
    (args.is_amazon_mode /\ \E i \in DOMAIN response : Malformed(response[i]))
        => Pos("build") = {}

(***************************************************************************)
(* C3, as the specification states it: with loading enabled and no file    *)
(* found the run stops before the docker client is created and makes no    *)
(* call at all.                                                            *)
(***************************************************************************)
EnvFileMissing == Truthy(args.env) /\ ~dotenv_file.found
Precedence(flag, name, default) ==
    IF Truthy(flag) THEN flag
    ELSE IF name \in DOMAIN environ THEN environ[name] ELSE default
C4_FlagEnvDefault ==
    /\ repo # Unbound => repo = Precedence(args.repository, BUILD_REPOSITORY, <<>>)
    /\ (repo # Unbound /\ ~args.will_add_latest) =>
          Range(tags) = IF ListTruthy(args.tags) THEN Range(args.tags)
                        ELSE {Precedence(None, BUILD_TAG, latest)}
    /\ (~args.is_amazon_mode /\ registry # Unbound) =>
          registry = Precedence(args.registry, BUILD_REGISTRY, <<>>)
    /\ user # Unbound /\ ~args.is_amazon_mode =>
          user = Precedence(args.login_user, BUILD_USER, None)
    /\ pswd # Unbound /\ ~args.is_amazon_mode =>
          pswd = Precedence(args.login_password, BUILD_PASSWORD, None)
    /\ region_name # Unbound =>
          region_name = Precedence(args.amazon_region, BUILD_AMAZON_REGION, None)

(***************************************************************************)
(* C7: once the configuration is resolved the tag set is not empty, and it *)
(* is exactly {"latest"} when neither -t nor BUILD_TAG supplies a tag; a   *)
(* build cycle that has returned has built at least one tag.               *)
(***************************************************************************)
C7_TagSetNeverEmpty ==
    /\ repo # Unbound =>
          /\ Len(tags) >= 1
          /\ (~ListTruthy(args.tags) /\ BUILD_TAG \notin DOMAIN environ)
                => Range(tags) = {latest}
    /\ pc \in {"build", "push", "stream"} => Len(tags) >= 1
    /\ BuildReturned => Pos("build") # {}

C7_Witness ==
    /\ args.tags = <<>> /\ BUILD_TAG \notin DOMAIN environ
    /\ ~args.will_add_latest
    /\ tags = <<latest>> /\ Pos("build") # {} /\ pc = "done"

(***************************************************************************)
(* What the response promises, read without the script's own helpers.      *)
(***************************************************************************)
Colon(c) == CHOOSE i \in DOMAIN c : c[i] = ":"
HostOf(auth) == Drop(auth.proxyEndpoint, Len(https))
UserOf(auth) ==
    LET c == b64decode(auth.authorizationToken) IN SubSeq(c, 1, Colon(c) - 1)
PswdOf(auth) ==
    LET c == b64decode(auth.authorizationToken) IN SubSeq(c, Colon(c) + 1, Len(c))
NthLogin(i) ==
    CHOOSE k \in Pos("login") : Cardinality({j \in Pos("login") : j <= k}) = i
\* the calls of the i-th credential cycle, the login excluded
CycleOf(i) ==
    LET from == NthLogin(i)
        to == IF i < Cardinality(Pos("login")) THEN NthLogin(i + 1) - 1
              ELSE Len(calls)
    IN  SubSeq(calls, from + 1, to)

(***************************************************************************)
(* C5: in Amazon mode with registry ids given, one authorization call is   *)
(* made, scoped to those ids; the i-th login uses the i-th entry's decoded *)
(* user and password and its endpoint host; no build or push precedes the  *)
(* first login; and a run that finishes has made one login per entry, each *)
(* followed by the build (and the push, if requested) of every tag under   *)
(* that entry's host.                                                      *)
(***************************************************************************)
C5_OneCyclePerEntry ==
    (args.is_amazon_mode /\ ListTruthy(args.amazon_registry_ids)) =>
        LET logins == Pos("login")
            auths == Pos("get_authorization_token")
        IN  /\ Cardinality(auths) <= 1
            /\ \A k \in auths : calls[k].arg = args.amazon_registry_ids
            /\ pc \in {"auth_loop", "build", "push", "stream", "done"}
                  => Cardinality(auths) = 1
            /\ Cardinality(logins) <= Len(response)
            /\ \A i \in 1..Cardinality(logins) :
                  calls[NthLogin(i)].arg = <<UserOf(response[i]),
                                             PswdOf(response[i]),
                                             HostOf(response[i])>>
            /\ \A k \in Pos("build") \cup Pos("push") :
                  \E l \in logins : l < k /\ calls[l].ok
            /\ pc = "done" =>
                  /\ Cardinality(logins) = Len(response)
                  /\ \A i \in DOMAIN response :
                        LET b == SelectSeq(CycleOf(i), LAMBDA c : c.op = "build")
                            p == SelectSeq(CycleOf(i), LAMBDA c : c.op = "push")
                        IN  /\ Len(b) = Len(tags)
                            /\ \A j \in DOMAIN b : b[j].arg[2] =
                                  ImageRef(HostOf(response[i]), repo, tags[j])
                            /\ Len(p) = IF args.will_push THEN Len(tags) ELSE 0
                            /\ \A j \in DOMAIN p : p[j].arg =
                                  <<RepoRef(HostOf(response[i]), repo), tags[j]>>

C5_Witness ==
    /\ args.is_amazon_mode /\ ListTruthy(args.amazon_registry_ids)
    /\ pc = "done" /\ args.will_push
    /\ Len(response) = 2
    /\ response[1].authorizationToken # response[2].authorizationToken
    /\ Cardinality(Pos("login")) = 2 /\ Cardinality(Pos("push")) = 2 * Len(tags)

(***************************************************************************)
(* C8: in Amazon mode the authorization, login, build and push calls and   *)
(* their arguments are those fixed by the response, the tags, the          *)
(* repository, the path, the build arguments, the registry ids and the     *)
(* push flag alone: --registry, BUILD_REGISTRY and --no-login take no part *)
(* in them.  The calls made so far are a prefix of that sequence, and all  *)
(* of it when the run finishes.                                            *)
(***************************************************************************)
RECURSIVE ExpectedTags(_, _)
ExpectedTags(host, j) ==
    IF j > Len(tags) THEN <<>>
    ELSE << <<"build", <<args.path, ImageRef(host, repo, tags[j]), build_args>> >> >>
         \o (IF args.will_push
                THEN << <<"push", <<RepoRef(host, repo), tags[j]>> >> >>
                ELSE <<>>)
         \o ExpectedTags(host, j + 1)
RECURSIVE ExpectedEntries(_)
ExpectedEntries(i) ==
    IF i > Len(response) \/ Malformed(response[i]) THEN <<>>
    ELSE << <<"login", <<UserOf(response[i]), PswdOf(response[i]),
                         HostOf(response[i])>> >> >>
         \o ExpectedTags(HostOf(response[i]), 1)
         \o ExpectedEntries(i + 1)
ExpectedAmazonCalls ==
    << <<"get_authorization_token",
         IF ListTruthy(args.amazon_registry_ids) THEN args.amazon_registry_ids
                                                 ELSE NoList>> >>
    \o ExpectedEntries(1)
MadeCalls ==
    LET s == SelectSeq(calls, LAMBDA c : c.op \in
                 {"get_authorization_token", "login", "build", "push"})
    IN  [k \in DOMAIN s |-> <<s[k].op, s[k].arg>>]
C8_AmazonIgnoresRegistryAndNoLogin ==
    args.is_amazon_mode =>
        LET made == MadeCalls
            expected == ExpectedAmazonCalls
        IN  /\ Len(made) <= Len(expected)
            /\ made = SubSeq(expected, 1, Len(made))
            /\ pc = "done" => Len(made) = Len(expected)

C8_Witness ==
    /\ args.is_amazon_mode /\ Truthy(args.registry) /\ ~args.will_login
    /\ BUILD_REGISTRY \in DOMAIN environ
    /\ pc = "done" /\ Pos("login") # {} /\ Pos("build") # {}

(***************************************************************************)
(* C9: in vanilla mode with --no-login no login call is ever made and a    *)
(* run that finishes has built (and pushed, if requested) every tag;       *)
(* without --no-login exactly one login call is made, against the resolved *)
(* registry, before every build and push, with or without the push flag.   *)
(***************************************************************************)
C9_VanillaLogin ==
    ~args.is_amazon_mode =>
        /\ ~args.will_login =>
              /\ Pos("login") = {}
              /\ pc = "done" =>
                    /\ Cardinality(Pos("build")) = Len(tags)
                    /\ Cardinality(Pos("push")) =
                          IF args.will_push THEN Len(tags) ELSE 0
        /\ args.will_login =>
              /\ Cardinality(Pos("login")) <= 1
              /\ pc \in {"build", "push", "stream", "finish", "done"}
                    => Cardinality(Pos("login")) = 1
              /\ \A l \in Pos("login") :
                    /\ calls[l].arg[3] =
                          IF Truthy(args.registry) THEN args.registry
                          ELSE IF BUILD_REGISTRY \in DOMAIN environ
                                  THEN environ[BUILD_REGISTRY] ELSE <<>>
                    /\ \A k \in Pos("build") \cup Pos("push") : l < k

C9_Witness ==
    /\ ~args.is_amazon_mode /\ args.will_login /\ ~args.will_push
    /\ pc = "done" /\ Cardinality(Pos("login")) = 1
    /\ Cardinality(Pos("build")) = 2

(***************************************************************************)
(* C10, as the specification states it: the build arguments of every build *)
(* call hold one entry per BUILD_ARG_ variable, keyed by the name without  *)
(* the prefix and valued by the variable; no entry comes from any other    *)
(* variable; and no key includes BUILD_ARG_.                               *)
(***************************************************************************)
Contains(s, p) == \E i \in 1..Len(s) : StartsWith(Drop(s, i - 1), p)
Stripped(n) == SubSeq(n, Len(BUILD_ARG_) + 1, Len(n))
ArgsFromPrefixedOnly(m) ==
    /\ \A n \in DOMAIN environ : StartsWith(n, BUILD_ARG_) =>
          Stripped(n) \in DOMAIN m /\ m[Stripped(n)] = environ[n]
    /\ \A k \in DOMAIN m : (BUILD_ARG_ \o k) \in DOMAIN environ
C10_BuildArgsNoPrefix ==
    \A c \in Pos("build") :
        /\ ArgsFromPrefixedOnly(calls[c].arg[3])
        /\ \A k \in DOMAIN calls[c].arg[3] : ~Contains(k, BUILD_ARG_)

(***************************************************************************)
(* C10, amended: as above, except that a key includes BUILD_ARG_ only when  *)
(* it comes from a variable whose name holds the prefix again after its    *)
(* first ten characters (BUILD_ARG_BUILD_ARG_Z gives the key BUILD_ARG_Z): *)
(* the prefix is stripped once.                                            *)
(***************************************************************************)
C10_BuildArgsStrippedOnce ==
    \A c \in Pos("build") :
        /\ ArgsFromPrefixedOnly(calls[c].arg[3])
        /\ \A k \in DOMAIN calls[c].arg[3] :
              Contains(k, BUILD_ARG_) =>
                 \E n \in DOMAIN environ :
                    /\ StartsWith(n, BUILD_ARG_)
                    /\ Contains(Tail(n), BUILD_ARG_)
                    /\ k = Stripped(n)

C10_Witness ==
    /\ Pos("build") # {}
    /\ {BUILD_ARG_ \o BUILD_ARG_ \o <<"Z">>, BUILD_ARG_ \o <<"X">>, BUILD_ARG_,
        <<"X">> \o BUILD_ARG_ \o <<"Y">>} \subseteq DOMAIN environ
    /\ DOMAIN build_args = {BUILD_ARG_ \o <<"Z">>, <<"X">>, <<>>}

====
